---- MODULE Spec2Model ----
(***************************************************************************)
(* State-machine model of mypy/scope.py: the Scope tracker that records    *)
(* which fine-grained target (module, class, function) is being processed. *)
(* The tracker's four fields are the variables module, classes, function   *)
(* and ignored.  The remaining variables describe its client: the stack of *)
(* scopes the client has entered and not yet left, and the SavedScope      *)
(* value the client last obtained from save().                             *)
(***************************************************************************)
EXTENDS Integers, Sequences, FiniteSets, TLC

\* Bound on the number of open scopes, on the ignored counter and on the
\* length of the class stack.
MaxDepth == 4

\* Python's None and the outcome of a failed assert statement.
None == "None"
AssertionError == "AssertionError"

\* Module prefixes, FuncBase objects and TypeInfo objects handed in by the client.
Modules == {"m", "n"}
FuncIds == {"f", "g"}
ClassIds == {"C", "D"}

\* FuncBase.fullname / TypeInfo.fullname of the objects above.  "g" is a
\* function whose fullname is empty (the case `fullname or ""` guards).
fullname(x) ==
  CASE x = "f" -> "m.f"
    [] x = "g" -> ""
    [] x = "C" -> "m.C"
    [] x = "D" -> "m.C.D"

\* FuncBase.name / TypeInfo.name: the short name.
name(x) ==
  CASE x = "f" -> "f"
    [] x = "g" -> "g"
    [] x = "C" -> "C"
    [] x = "D" -> "D"

\* Python truthiness of an Optional[str]: None and "" are false.
Truthy(x) == x # None /\ x # ""

VARIABLES
  module,    \* Scope.module
  classes,   \* Scope.classes
  function,  \* Scope.function
  ignored,   \* Scope.ignored
  stack,     \* the client's open scopes that are still paired, outermost first
  saved,     \* the SavedScope last returned by save()
  savedObs,  \* what the queries returned when save() was called
  mode,      \* how much of the client's nesting stack still describes
  op,        \* the last operation called
  err        \* the last operation raised AssertionError

vars == <<module, classes, function, ignored, stack, saved, savedObs, mode, op, err>>

\* The tracker object as one value.
Self == [module |-> module, classes |-> classes, function |-> function, ignored |-> ignored]

\* Scope.__init__
ScopeInit == [module |-> None, classes |-> <<>>, function |-> None, ignored |-> 0]

(***************************************************************************)
(* Queries                                                                 *)
(***************************************************************************)

current_module_id(s) ==
  IF ~Truthy(s.module) THEN AssertionError ELSE s.module

\* Faulty variant of current_target: a class body gets the class as its target.
current_target_class(s) ==
  IF ~Truthy(s.module) THEN AssertionError
  ELSE IF s.function # None
       THEN (IF Truthy(fullname(s.function)) THEN fullname(s.function) ELSE "")
  ELSE IF Len(s.classes) > 0 THEN fullname(s.classes[Len(s.classes)])
  ELSE s.module

current_target(s) ==
  IF ~Truthy(s.module) THEN AssertionError
  ELSE IF s.function # None
       THEN (IF Truthy(fullname(s.function)) THEN fullname(s.function) ELSE "")
       ELSE s.module

current_full_target(s) ==
  IF ~Truthy(s.module) THEN AssertionError
  ELSE IF s.function # None THEN fullname(s.function)
  ELSE IF Len(s.classes) > 0 THEN fullname(s.classes[Len(s.classes)])
  ELSE s.module

current_type_name(s) ==
  IF Len(s.classes) > 0 THEN name(s.classes[Len(s.classes)]) ELSE None

current_function_name(s) ==
  IF s.function # None THEN name(s.function) ELSE None

\* The five query results of a tracker state, in the order
\* module id, target, full target, type name, function name.
Queries(s) ==
  <<current_module_id(s), current_target(s), current_full_target(s),
    current_type_name(s), current_function_name(s)>>

(***************************************************************************)
(* Scope operations, as functions of the tracker state.  An operation that *)
(* can fail an assert returns [ok, s]: ok is FALSE when the assert failed, *)
(* and s is the state the operation left behind.                           *)
(***************************************************************************)

\* Faulty variant of module_scope_enter: the reset of ignored is missing.
module_scope_enter_keep_ignored(s, prefix) ==
  [module |-> prefix, classes |-> <<>>, function |-> None, ignored |-> s.ignored]

\* module_scope up to its yield
module_scope_enter(s, prefix) ==
  [module |-> prefix, classes |-> <<>>, function |-> None, ignored |-> 0]

\* Faulty variant of module_scope_leave: the module is asserted but not cleared.
module_scope_leave_keep(s) ==
  IF ~Truthy(s.module) THEN [ok |-> FALSE, s |-> s]
  ELSE [ok |-> TRUE, s |-> s]

\* module_scope after its yield
module_scope_leave(s) ==
  IF ~Truthy(s.module) THEN [ok |-> FALSE, s |-> s]
  ELSE [ok |-> TRUE, s |-> [s EXCEPT !.module = None]]

\* Faulty variant of function_scope_enter: a nested function replaces the active one.
function_scope_enter_replace(s, fdef) ==
  IF s.function = None THEN [s EXCEPT !.function = fdef]
  ELSE [s EXCEPT !.function = fdef, !.ignored = s.ignored + 1]

\* Faulty variant of function_scope_enter: a nested function is not counted.
function_scope_enter_uncounted(s, fdef) ==
  IF s.function = None THEN [s EXCEPT !.function = fdef] ELSE s

\* function_scope up to its yield
function_scope_enter(s, fdef) ==
  IF s.function = None THEN [s EXCEPT !.function = fdef]
  ELSE [s EXCEPT !.ignored = s.ignored + 1]

\* Faulty variant of function_scope_leave: the assert is missing.
function_scope_leave_noassert(s) ==
  IF s.ignored # 0 THEN [ok |-> TRUE, s |-> [s EXCEPT !.ignored = s.ignored - 1]]
  ELSE [ok |-> TRUE, s |-> [s EXCEPT !.function = None]]

\* Faulty variant of function_scope_leave: the else is missing, so leaving an
\* absorbed scope clears the active function too.
function_scope_leave_clear(s) ==
  IF s.ignored # 0
  THEN [ok |-> TRUE, s |-> [s EXCEPT !.ignored = s.ignored - 1, !.function = None]]
  ELSE IF s.function = None THEN [ok |-> FALSE, s |-> s]
  ELSE [ok |-> TRUE, s |-> [s EXCEPT !.function = None]]

\* function_scope after its yield
function_scope_leave(s) ==
  IF s.ignored # 0 THEN [ok |-> TRUE, s |-> [s EXCEPT !.ignored = s.ignored - 1]]
  ELSE IF s.function = None THEN [ok |-> FALSE, s |-> s]
  ELSE [ok |-> TRUE, s |-> [s EXCEPT !.function = None]]

\* Faulty variant of enter_class: the class is pushed whether a function is active or not.
enter_class_push(s, info) ==
  [s EXCEPT !.classes = Append(s.classes, info)]

\* enter_class
enter_class(s, info) ==
  IF s.function = None THEN [s EXCEPT !.classes = Append(s.classes, info)]
  ELSE [s EXCEPT !.ignored = s.ignored + 1]

\* Faulty variant of leave_class: the class stack is popped before ignored is looked at.
leave_class_pop_first(s) ==
  IF Len(s.classes) # 0
  THEN [ok |-> TRUE, s |-> [s EXCEPT !.classes = SubSeq(s.classes, 1, Len(s.classes) - 1)]]
  ELSE IF s.ignored # 0 THEN [ok |-> TRUE, s |-> [s EXCEPT !.ignored = s.ignored - 1]]
  ELSE [ok |-> FALSE, s |-> s]

\* Faulty variant of leave_class: ignored is decremented whenever the class stack is empty.
leave_class_decrement_at_zero(s) ==
  IF s.ignored # 0 \/ Len(s.classes) = 0
  THEN [ok |-> TRUE, s |-> [s EXCEPT !.ignored = s.ignored - 1]]
  ELSE [ok |-> TRUE, s |-> [s EXCEPT !.classes = SubSeq(s.classes, 1, Len(s.classes) - 1)]]

\* Faulty variant of leave_class: the assert on the class stack runs before ignored is looked at.
leave_class_assert_first(s) ==
  IF Len(s.classes) = 0 THEN [ok |-> FALSE, s |-> s]
  ELSE IF s.ignored # 0 THEN [ok |-> TRUE, s |-> [s EXCEPT !.ignored = s.ignored - 1]]
  ELSE [ok |-> TRUE, s |-> [s EXCEPT !.classes = SubSeq(s.classes, 1, Len(s.classes) - 1)]]

\* leave_class
leave_class(s) ==
  IF s.ignored # 0 THEN [ok |-> TRUE, s |-> [s EXCEPT !.ignored = s.ignored - 1]]
  ELSE IF Len(s.classes) = 0 THEN [ok |-> FALSE, s |-> s]
  ELSE [ok |-> TRUE, s |-> [s EXCEPT !.classes = SubSeq(s.classes, 1, Len(s.classes) - 1)]]

\* save(): the SavedScope tuple, or a failed assert
save(s) ==
  IF ~Truthy(s.module) THEN [ok |-> FALSE, val |-> <<None, None, None>>]
  ELSE [ok |-> TRUE,
        val |-> <<s.module,
                  IF Len(s.classes) > 0 THEN s.classes[Len(s.classes)] ELSE None,
                  s.function>>]

\* Faulty variant of saved_scope_enter: the function scope is entered before the
\* class scope, so the class is absorbed.
saved_scope_enter_function_first(s, sv) ==
  LET s1 == module_scope_enter(s, sv[1])
      s2 == IF sv[3] # None THEN function_scope_enter(s1, sv[3]) ELSE s1
  IN  IF sv[2] # None THEN enter_class(s2, sv[2]) ELSE s2

\* saved_scope up to its yield: module_scope, then class_scope if the saved
\* class exists, then function_scope if the saved function exists.
saved_scope_enter(s, sv) ==
  LET s1 == module_scope_enter(s, sv[1])
      s2 == IF sv[2] # None THEN enter_class(s1, sv[2]) ELSE s1
  IN  IF sv[3] # None THEN function_scope_enter(s2, sv[3]) ELSE s2

\* saved_scope after its yield: the three context managers exit innermost
\* first; an assert failing in one of them passes through the outer ones as
\* an exception, so their code after the yield does not run.
saved_scope_leave(s, sv) ==
  LET r1 == IF sv[3] # None THEN function_scope_leave(s) ELSE [ok |-> TRUE, s |-> s]
      r2 == IF ~r1.ok THEN r1
            ELSE IF sv[2] # None THEN leave_class(r1.s) ELSE r1
  IN  IF ~r2.ok THEN r2 ELSE module_scope_leave(r2.s)

(***************************************************************************)
(* The client.  It may call the operations in any order.  As long as it    *)
(* keeps its enters and leaves strictly paired, stack holds a frame for    *)
(* every scope it has entered and not yet left: the frame's kind, the      *)
(* arguments it was entered with and, for a function or class scope, the   *)
(* tracker state just before it was entered (pre; a module or saved scope  *)
(* resets the tracker and records ScopeInit).  mode says what stack covers:*)
(*   "paired"  every open scope is a frame of stack;                       *)
(*   "inner"   a module or saved scope was entered inside other open       *)
(*             scopes (or after the pairing was broken): stack holds that  *)
(*             scope and what was opened inside it, the outer scopes are   *)
(*             open but no longer followed;                                *)
(*   "free"    the pairing was broken (a leave of the wrong kind, a leave  *)
(*             that failed, an exception that skipped a leave): stack is   *)
(*             empty and scopes are no longer followed.                    *)
(***************************************************************************)

Frame(kind, mod, info, fn, pre) ==
  [kind |-> kind, mod |-> mod, info |-> info, fn |-> fn, pre |-> pre]

Front(st) == SubSeq(st, 1, Len(st) - 1)

Top == stack[Len(stack)]

TopIs(kind) == Len(stack) > 0 /\ Top.kind = kind

\* The tracker's fields take the values of state s.
SetSelf(s) ==
  /\ module' = s.module
  /\ classes' = s.classes
  /\ function' = s.function
  /\ ignored' = s.ignored

Room == Len(stack) < MaxDepth /\ ignored < MaxDepth /\ Len(classes) < MaxDepth

\* A function or class scope is opened: followed unless the pairing is broken.
Push(fr) ==
  /\ stack' = IF mode = "free" THEN <<>> ELSE Append(stack, fr)
  /\ UNCHANGED mode

\* A module or saved scope is opened: the tracker is reset, so the scope is
\* followed from here on, and the scopes around it no longer are.
PushReset(fr) ==
  /\ stack' = <<fr>>
  /\ mode' = IF mode = "paired" /\ stack = <<>> THEN "paired" ELSE "inner"

Init ==
  /\ module = ScopeInit.module
  /\ classes = ScopeInit.classes
  /\ function = ScopeInit.function
  /\ ignored = ScopeInit.ignored
  /\ stack = <<>>
  /\ saved = <<None, None, None>>
  /\ savedObs = Queries(ScopeInit)
  /\ mode = "paired"
  /\ op = "init"
  /\ err = FALSE

\* with module_scope(prefix): entered
EnterModule ==
  \E prefix \in Modules :
    /\ SetSelf(module_scope_enter(Self, prefix))
    /\ PushReset(Frame("module", prefix, None, None, ScopeInit))
    /\ op' = "enter_module"
    /\ err' = FALSE
    /\ UNCHANGED <<saved, savedObs>>

\* with function_scope(fdef): entered
EnterFunction ==
  \E fdef \in FuncIds :
    /\ Room
    /\ SetSelf(function_scope_enter(Self, fdef))
    /\ Push(Frame("function", None, None, fdef, Self))
    /\ op' = "enter_function"
    /\ err' = FALSE
    /\ UNCHANGED <<saved, savedObs>>

\* enter_class(info), directly or as the first half of class_scope(info)
EnterClass ==
  \E info \in ClassIds :
    /\ Room
    /\ SetSelf(enter_class(Self, info))
    /\ Push(Frame("class", None, info, None, Self))
    /\ op' = "enter_class"
    /\ err' = FALSE
    /\ UNCHANGED <<saved, savedObs>>

\* The innermost open scope ends normally and its leave half gives result r.
\* A failed assert leaves the scope by an exception.
LeaveTop(r) ==
  /\ op' = "leave_" \o Top.kind
  /\ SetSelf(r.s)
  /\ stack' = IF r.ok THEN Front(stack) ELSE <<>>
  /\ mode' = IF r.ok THEN mode ELSE "free"
  /\ err' = ~r.ok
  /\ UNCHANGED <<saved, savedObs>>

LeaveModule == TopIs("module") /\ LeaveTop(module_scope_leave(Self))

LeaveFunction == TopIs("function") /\ LeaveTop(function_scope_leave(Self))

LeaveClass == TopIs("class") /\ LeaveTop(leave_class(Self))

LeaveSaved ==
  /\ TopIs("saved")
  /\ LeaveTop(saved_scope_leave(Self, <<Top.mod, Top.info, Top.fn>>))

\* A leave half run although the innermost followed scope is not of its kind.
StrayLeave(kind, r) ==
  /\ ~TopIs(kind)
  /\ op' = "leave_" \o kind
  /\ SetSelf(r.s)
  /\ stack' = <<>>
  /\ mode' = "free"
  /\ err' = ~r.ok
  /\ UNCHANGED <<saved, savedObs>>

StrayLeaveModule == StrayLeave("module", module_scope_leave(Self))

StrayLeaveFunction == StrayLeave("function", function_scope_leave(Self))

StrayLeaveClass == StrayLeave("class", leave_class(Self))

StrayLeaveSaved ==
  \E info \in ClassIds \cup {None}, fn \in FuncIds \cup {None} :
    StrayLeave("saved", saved_scope_leave(Self, <<None, info, fn>>))

\* s = save()
Save ==
  LET r == save(Self)
  IN  /\ op' = "save"
      /\ err' = ~r.ok
      /\ saved' = IF r.ok THEN r.val ELSE saved
      /\ savedObs' = IF r.ok THEN Queries(Self) ELSE savedObs
      /\ UNCHANGED <<module, classes, function, ignored, stack, mode>>

\* with saved_scope(saved): entered
Restore ==
  /\ saved[1] # None
  /\ SetSelf(saved_scope_enter(Self, saved))
  /\ PushReset(Frame("saved", saved[1], saved[2], saved[3], ScopeInit))
  /\ op' = "restore"
  /\ err' = FALSE
  /\ UNCHANGED <<saved, savedObs>>

\* An exception raised in the body of the innermost open scope passes through
\* its context manager: the generator is resumed by throw() at its yield and
\* none of the code after the yield runs.
Abort ==
  /\ Len(stack) > 0
  /\ stack' = <<>>
  /\ mode' = "free"
  /\ op' = "abort"
  /\ err' = FALSE
  /\ UNCHANGED <<module, classes, function, ignored, saved, savedObs>>

\* One of the five queries is called.
Query ==
  \E q \in 1..5 :
    /\ op' = "query"
    /\ err' = (Queries(Self)[q] = AssertionError)
    /\ UNCHANGED <<module, classes, function, ignored, stack, saved, savedObs, mode>>

Next ==
  \/ EnterModule
  \/ LeaveModule
  \/ EnterFunction
  \/ LeaveFunction
  \/ EnterClass
  \/ LeaveClass
  \/ Save
  \/ Restore
  \/ LeaveSaved
  \/ StrayLeaveModule
  \/ StrayLeaveFunction
  \/ StrayLeaveClass
  \/ StrayLeaveSaved
  \/ Abort
  \/ Query

Spec == Init /\ [][Next]_vars

(***************************************************************************)
(* Properties                                                              *)
(***************************************************************************)

\* C1: entering saved_scope(s) for s = save(), nested inside other scopes or
\* after they were left, makes the five queries return inside the restored
\* scope exactly what they returned when save() was called.
C1_SaveRestoreQueries ==
  [][(op' = "restore" /\ Restore) => Queries(Self)' = savedObs]_vars

\* A restored scope entered inside other open scopes, with a saved class and
\* a saved function, in which the queries answer as at save().
C1_Witness ==
  /\ op = "restore"
  /\ mode = "inner"
  /\ saved[2] # None
  /\ saved[3] # None
  /\ Queries(Self) = savedObs
  /\ current_target(Self) = fullname(saved[3])
  /\ current_type_name(Self) = name(saved[2])

\* Frame i is the function scope that made its function the active one
\* while a module is active.
OutermostFunction(i) ==
  /\ stack[i].kind = "function"
  /\ stack[i].pre.function = None
  /\ Truthy(module)

\* C2 (inside): while the outermost function f is open, whatever is nested
\* in it, the target, the full target and the function name are those of f,
\* and ignored counts the scopes opened inside f.
C2_Inside ==
  \A i \in 1..Len(stack) :
    OutermostFunction(i) =>
      /\ current_target(Self) = fullname(stack[i].fn)
      /\ current_full_target(Self) = fullname(stack[i].fn)
      /\ current_function_name(Self) = name(stack[i].fn)
      /\ function = stack[i].fn
      /\ ignored = Len(stack) - i

\* C2: inside a function g nested in the outermost function f of module m
\* the target is f's, it still is after g is left, and after f is left the
\* target is m.
C2_NestedFunctionTarget ==
  [][/\ C2_Inside'
     /\ (op' = "leave_function" /\ LeaveFunction /\ OutermostFunction(Len(stack)))
          => (current_target(Self)' = module /\ ~err')]_vars

\* Module m, function f, a class absorbed in f, then g inside it: the target
\* is f's and not g's.
C2_Witness ==
  /\ Len(stack) = 4
  /\ stack[1].kind = "module"
  /\ OutermostFunction(2)
  /\ stack[3].kind = "class"
  /\ stack[4].kind = "function"
  /\ stack[4].fn # stack[2].fn
  /\ current_target(Self) = fullname(stack[2].fn)
  /\ current_target(Self) # fullname(stack[4].fn)
  /\ ignored = 2

\* C3: with a module active, the target is the active function's fullname,
\* else the module; the full target is the active function's fullname, else
\* the innermost class's fullname, else the module; so the two differ only
\* when no function is active and the class stack is not empty.
C3_TargetValues ==
  Truthy(module) =>
    /\ current_target(Self) = (IF function # None THEN fullname(function) ELSE module)
    /\ current_full_target(Self) =
         (IF function # None THEN fullname(function)
          ELSE IF classes # <<>> THEN fullname(classes[Len(classes)])
          ELSE module)
    /\ (current_target(Self) # current_full_target(Self)
          => (function = None /\ classes # <<>>))

\* In a class body with no enclosing function the target is the module and
\* the full target is the class.
C3_Witness ==
  /\ Truthy(module)
  /\ function = None
  /\ Len(classes) = 2
  /\ current_target(Self) = module
  /\ current_full_target(Self) = fullname(classes[2])
  /\ current_target(Self) # current_full_target(Self)

\* Frame i is a class scope entered while a function was active.
AbsorbedClass(i) == stack[i].kind = "class" /\ stack[i].pre.function # None

\* C4 (during): for the whole body of a class entered under an active
\* function the queries answer as before the class was entered, and the
\* class stack is the one from before.
C4_During ==
  \A i \in 1..Len(stack) :
    AbsorbedClass(i) =>
      /\ Queries(Self) = Queries(stack[i].pre)
      /\ classes = stack[i].pre.classes

\* C4: a class entered while a function is active is absorbed (ignored + 1,
\* nothing pushed) and changes no query result during its body nor when it
\* is left.
C4_AbsorbedClassFrame ==
  [][/\ C4_During'
     /\ (op' = "enter_class" /\ EnterClass /\ function # None)
          => (ignored' = ignored + 1 /\ classes' = classes
              /\ Queries(Self)' = Queries(Self))
     /\ (op' = "leave_class" /\ LeaveClass /\ AbsorbedClass(Len(stack)))
          => (Queries(Self)' = Queries(Self) /\ classes' = classes /\ ~err')]_vars

\* A function is active above a non-empty class stack; a class was absorbed
\* in it and a further function scope is open inside that class.
C4_Witness ==
  /\ Len(stack) = 4
  /\ Truthy(module)
  /\ classes # <<>>
  /\ AbsorbedClass(3)
  /\ stack[4].kind = "function"
  /\ current_full_target(Self) = fullname(function)
  /\ ignored = 2

\* C5: leaving a function or class scope whose body was strictly paired
\* puts the tracker back in the state it had before the scope was entered.
C5_RoundTrip ==
  [][(op' \in {"leave_function", "leave_class"} /\ (LeaveFunction \/ LeaveClass))
       => (Self' = Top.pre /\ ~err')]_vars

\* Back in a module with an open class after a function scope, which had
\* changed the tracker, was left.
C5_Witness ==
  /\ op = "leave_function"
  /\ ~err
  /\ Len(stack) = 2
  /\ stack[2].kind = "class"
  /\ Truthy(module)
  /\ function = None
  /\ classes = <<stack[2].info>>

\* The leave half of function_scope, of class_scope (leave_class) or of
\* module_scope runs, for the innermost open scope or not.
FunctionLeave == op' = "leave_function" /\ (LeaveFunction \/ StrayLeaveFunction)

ClassLeave == op' = "leave_class" /\ (LeaveClass \/ StrayLeaveClass)

ModuleLeave == op' = "leave_module" /\ (LeaveModule \/ StrayLeaveModule)

\* Every open scope is followed and none of them is a scope of this kind
\* (a saved scope holds a module scope and, if it saved them, a class scope
\* and a function scope).
NoOpenScope(kind) ==
  /\ mode = "paired"
  /\ \A i \in 1..Len(stack) :
       /\ stack[i].kind # kind
       /\ stack[i].kind = "saved" =>
            /\ kind # "module"
            /\ kind = "class" => stack[i].info = None
            /\ kind = "function" => stack[i].fn = None

\* C6 as stated: a leave with no open scope of its own kind fails an assert
\* and changes nothing.
C6_UnmatchedLeaveFails ==
  [][/\ (FunctionLeave /\ NoOpenScope("function")) => (err' /\ Self' = Self)
     /\ (ClassLeave /\ NoOpenScope("class")) => (err' /\ Self' = Self)
     /\ (ModuleLeave /\ ~Truthy(module)) => (err' /\ Self' = Self)]_vars

\* C6 amended: a function leave fails exactly when ignored is 0 and no
\* function is active, a class leave exactly when ignored is 0 and the class
\* stack is empty, a module leave exactly when no module is active; a failed
\* leave changes nothing.  So a function or class leave with no function and
\* no class scope open fails, while with ignored > 0 a leave of either kind
\* decrements ignored without any check of its kind.
C6_LeaveFailsAtZero ==
  [][/\ FunctionLeave =>
          /\ err' <=> (ignored = 0 /\ function = None)
          /\ err' => Self' = Self
     /\ ClassLeave =>
          /\ err' <=> (ignored = 0 /\ classes = <<>>)
          /\ err' => Self' = Self
     /\ ModuleLeave =>
          /\ err' <=> ~Truthy(module)
          /\ err' => Self' = Self
     /\ ((FunctionLeave \/ ClassLeave)
           /\ NoOpenScope("function") /\ NoOpenScope("class")) => err'
     /\ ((FunctionLeave \/ ClassLeave) /\ ignored > 0)
          => (~err' /\ ignored' = ignored - 1 /\ function' = function
              /\ classes' = classes)]_vars

\* A class leave issued in a module with nothing to leave has failed.
C6_Witness ==
  /\ op = "leave_class"
  /\ err
  /\ Truthy(module)
  /\ function = None
  /\ classes = <<>>
  /\ ignored = 0

\* C7 as stated: with no module active every query and save() fail.
C7_NoModuleEveryQueryFails ==
  ~Truthy(module) =>
    /\ \A q \in 1..5 : Queries(Self)[q] = AssertionError
    /\ ~save(Self).ok

\* C8 as stated: a scope left by an exception has run its leave half: the
\* tracker is back in the state from before a function or class scope, and
\* the module is cleared after a module or saved scope.
C8_AbnormalExitLeaves ==
  [][(op' = "abort" /\ Abort) =>
       IF Top.kind \in {"function", "class"} THEN Self' = Top.pre
       ELSE module' = None]_vars

\* C9: as long as the client pairs its calls and does not nest module
\* scopes, the tracker is all empty whenever no scope is open: when created
\* and after every module pass, whose leave never fails.
C9_ModulePassRoundTrip ==
  [][/\ (mode = "paired" /\ stack = <<>>)' => Self' = ScopeInit
     /\ (op' = "leave_module" /\ mode = "paired" /\ LeaveModule)
          => (~err' /\ mode' = "paired" /\ stack' = <<>>)]_vars

\* A module pass that went through a class and a function has ended.
C9_Witness ==
  /\ op = "leave_module"
  /\ ~err
  /\ mode = "paired"
  /\ stack = <<>>
  /\ Self = ScopeInit
  /\ saved[2] # None
  /\ saved[3] # None

\* C10: entering a function under an active function adds 1 to ignored and
\* changes nothing else, and its leave takes ignored back to the value from
\* before; entering a function when none is active makes it the active one
\* and changes nothing else.
C10_FunctionScopeFrame ==
  [][/\ (op' = "enter_function" /\ EnterFunction /\ function # None)
          => /\ ignored' = ignored + 1
             /\ function' = function
             /\ classes' = classes
             /\ module' = module
     /\ (op' = "enter_function" /\ EnterFunction /\ function = None)
          => /\ function' \in FuncIds
             /\ mode # "free" => function' = stack'[Len(stack')].fn
             /\ ignored' = ignored
             /\ classes' = classes
             /\ module' = module
     /\ (op' = "leave_function" /\ LeaveFunction /\ Top.pre.function # None)
          => /\ ~err'
             /\ ignored' = ignored - 1
             /\ ignored' = Top.pre.ignored
             /\ function' = function
             /\ classes' = classes
             /\ module' = module]_vars

\* Function g, nested in the active function f, has just been left.
C10_Witness ==
  /\ op = "leave_function"
  /\ ~err
  /\ TopIs("function")
  /\ Top.pre.function = None
  /\ function = Top.fn
  /\ ignored = 0
  /\ Truthy(module)

\* C11: entering a module scope, from any state, sets the module to the
\* given name and resets the class stack, the active function and ignored;
\* leaving it fails exactly when no module is active and otherwise clears
\* the module, and in both cases leaves the other three fields as they were.
C11_ModuleScopeFrame ==
  [][/\ (op' = "enter_module" /\ EnterModule)
          => /\ module' \in Modules
             /\ module' = stack'[1].mod
             /\ classes' = <<>>
             /\ function' = None
             /\ ignored' = 0
     /\ ModuleLeave
          => /\ err' <=> ~Truthy(module)
             /\ module' = (IF err' THEN module ELSE None)
             /\ classes' = classes
             /\ function' = function
             /\ ignored' = ignored]_vars

\* A module was left out of order: only the module is cleared, the class
\* stack and the active function are still those of the open scopes.
C11_Witness ==
  /\ op = "leave_module"
  /\ ~err
  /\ module = None
  /\ classes # <<>>
  /\ function # None
  /\ ignored > 0

\* C12: while the client has paired every call since the tracker was
\* created and has entered no module or saved scope inside another scope,
\* no enter, no leave of the innermost scope and no query made with the
\* module active fails an assert.
C12_PairedCallsNeverFail ==
  [][mode = "paired" =>
       /\ op' \in {"enter_module", "enter_function", "enter_class"} => ~err'
       /\ (op' \in {"leave_module", "leave_function", "leave_class"}
             /\ (LeaveModule \/ LeaveFunction \/ LeaveClass)) => ~err'
       /\ (op' = "query" /\ Truthy(module)) => ~err']_vars

\* In a module pass, a class nested in a function nested in a class has
\* been left; all calls were paired and none has failed.
C12_Witness ==
  /\ mode = "paired"
  /\ op = "leave_class"
  /\ ~err
  /\ Len(stack) = 3
  /\ stack[1].kind = "module"
  /\ stack[2].kind = "class"
  /\ stack[3].kind = "function"
  /\ ignored = 0

\* The reference tracker of the design notes: one tagged entry per open
\* scope.  RefEnters lists the scopes the client has open, a saved scope
\* standing for the module, class and function it replays.
RECURSIVE RefEnters(_)
RefEnters(st) ==
  IF st = <<>> THEN <<>>
  ELSE LET fr == st[Len(st)] IN
       RefEnters(Front(st)) \o
       CASE fr.kind = "module" -> <<[kind |-> "Module", arg |-> fr.mod]>>
         [] fr.kind = "function" -> <<[kind |-> "Function", arg |-> fr.fn]>>
         [] fr.kind = "class" -> <<[kind |-> "Class", arg |-> fr.info]>>
         [] fr.kind = "saved" ->
              <<[kind |-> "Module", arg |-> fr.mod]>>
              \o (IF fr.info # None
                  THEN <<[kind |-> "Class", arg |-> fr.info]>> ELSE <<>>)
              \o (IF fr.fn # None
                  THEN <<[kind |-> "Function", arg |-> fr.fn]>> ELSE <<>>)

\* A function or class entered while a Function entry is on the reference
\* stack is pushed as Absorbed; every other scope is pushed under its own tag.
RefEntries ==
  LET es == RefEnters(stack) IN
  [i \in 1..Len(es) |->
     IF es[i].kind # "Module" /\ \E j \in 1..(i - 1) : es[j].kind = "Function"
     THEN [kind |-> "Absorbed", arg |-> es[i].arg]
     ELSE es[i]]

RefArgs(kind) ==
  LET IsKind(e) == e.kind = kind
      es == SelectSeq(RefEntries, IsKind)
  IN [i \in 1..Len(es) |-> es[i].arg]

\* The tracker state the reference stack stands for.
RefSelf ==
  [module |-> IF RefArgs("Module") = <<>> THEN None ELSE RefArgs("Module")[1],
   classes |-> RefArgs("Class"),
   function |-> IF RefArgs("Function") = <<>> THEN None
                ELSE RefArgs("Function")[1],
   ignored |-> Len(RefArgs("Absorbed"))]

\* C13: after every step of a run whose calls are paired, ignored is the
\* number of Absorbed entries of the reference stack, the class stack is its
\* Class entries in order, the active function is its single Function entry
\* or none, the module is its Module entry, and every query answers as it
\* does on the reference state.
C13_CounterRefinesTaggedStack ==
  mode # "free" =>
    /\ Len(RefArgs("Function")) <= 1
    /\ Len(RefArgs("Module")) <= 1
    /\ ignored = RefSelf.ignored
    /\ classes = RefSelf.classes
    /\ function = RefSelf.function
    /\ module = RefSelf.module
    /\ Queries(Self) = Queries(RefSelf)

\* The reference stack holds Module, Class, Function, Absorbed in this order.
C13_Witness ==
  /\ mode = "paired"
  /\ [i \in 1..Len(RefEntries) |-> RefEntries[i].kind]
       = <<"Module", "Class", "Function", "Absorbed">>
  /\ ignored = 1
  /\ Len(classes) = 1

\* C14: ignored is a natural number before and after every step, whatever
\* the calls and whether or not they fail.  A function or class leave
\* subtracts exactly 1 when it finds ignored non-zero and leaves it alone
\* when it finds 0; the leave of a saved scope runs at most one leave of
\* each kind; the only other steps that lower ignored are the assignment of
\* 0 by module_scope and saved_scope.
C14_IgnoredNeverNegative ==
  [][/\ ignored \in Nat
     /\ ignored' \in Nat
     /\ (FunctionLeave \/ ClassLeave)
          => ignored' = (IF ignored > 0 THEN ignored - 1 ELSE 0)
     /\ op' = "leave_saved"
          => /\ ignored' <= ignored
             /\ ignored - ignored' <= 2
     /\ ignored' < ignored
          => \/ op' \in {"leave_function", "leave_class", "leave_saved"}
             \/ op' \in {"enter_module", "restore"} /\ ignored' = 0]_vars

\* A function leave with no scope to close found ignored at 0, failed and
\* left it at 0.
C14_Witness ==
  /\ op = "leave_function"
  /\ err
  /\ ignored = 0
  /\ function = None
  /\ classes # <<>>

\* The classes the client has open that were entered while no function was
\* active, outermost first; a saved scope enters its class before its
\* function.
RECURSIVE OpenClasses(_)
OpenClasses(st) ==
  IF st = <<>> THEN <<>>
  ELSE LET fr == st[Len(st)] IN
       OpenClasses(Front(st)) \o
       (IF /\ fr.info # None
           /\ \/ fr.kind = "saved"
              \/ fr.kind = "class" /\ fr.pre.function = None
        THEN <<fr.info>> ELSE <<>>)

\* The class stack a saved scope sets up.
SavedClasses(fr) == IF fr.info # None THEN <<fr.info>> ELSE <<>>

\* C15: in a run whose calls are paired the class stack is, outermost
\* first, the open classes that were entered while no function was active,
\* and for as long as the active function's scope is open the class stack
\* is the one found when that function was entered.
C15_ClassStackIsOpenClasses ==
  mode # "free" =>
    /\ classes = OpenClasses(stack)
    /\ \A i \in 1..Len(stack) :
         /\ (stack[i].kind = "function" /\ stack[i].pre.function = None)
              => /\ function = stack[i].fn
                 /\ classes = stack[i].pre.classes
         /\ (stack[i].kind = "saved" /\ stack[i].fn # None)
              => /\ function = stack[i].fn
                 /\ classes = SavedClasses(stack[i])

\* Two nested classes, a function in the inner one and a class inside that
\* function: the class stack holds the two outer classes only.
C15_Witness ==
  /\ mode = "paired"
  /\ Len(stack) = 4
  /\ stack[1].kind = "class"
  /\ stack[2].kind = "class"
  /\ stack[3].kind = "function"
  /\ stack[4].kind = "class"
  /\ classes = <<stack[1].info, stack[2].info>>
  /\ stack[4].info # stack[2].info

\* The state saved_scope sets up from a SavedScope tuple.
RestoredState(sv) ==
  [module |-> sv[1],
   classes |-> IF sv[2] # None THEN <<sv[2]>> ELSE <<>>,
   function |-> sv[3],
   ignored |-> 0]

\* C16: entering saved_scope(saved) leaves the tracker with the saved
\* module, a class stack holding the saved class alone (or empty), the saved
\* function (or none) and ignored at 0.  So the tuple save() returns from a
\* class stack of any depth is restored with a stack of depth at most 1
\* holding the innermost class, and a class leave run directly inside a
\* restored scope that has a class and no function empties the class stack
\* and the type name becomes None.
C16_RestoredStateExact ==
  [][/\ (op' = "restore" /\ Restore) => Self' = RestoredState(saved)
     /\ (op' = "save" /\ ~err')
          => LET s == saved_scope_enter(Self, saved') IN
             /\ s = RestoredState(saved')
             /\ Len(s.classes) <= 1
             /\ Len(classes) >= 1
                  => s.classes = <<classes[Len(classes)]>>
     /\ (/\ op' = "leave_class"
         /\ ClassLeave
         /\ Len(stack) = 1
         /\ Top.kind = "saved"
         /\ Top.info # None
         /\ Top.fn = None)
          => /\ ~err'
             /\ classes' = <<>>
             /\ current_type_name(Self') = None]_vars

\* Inside a restored scope whose snapshot has a class and a function, taken
\* elsewhere: the class is on the stack, not absorbed.
C16_Witness ==
  /\ op = "restore"
  /\ Len(stack) = 1
  /\ stack[1].kind = "saved"
  /\ saved[2] # None
  /\ saved[3] # None
  /\ classes = <<saved[2]>>
  /\ function = saved[3]
  /\ ignored = 0
  /\ mode = "inner"

\* C17: after every step of any call sequence, a non-zero ignored means a
\* function is active.  The steps that take the tracker from an active
\* function to none are a function leave, alone or as part of the leave of
\* a saved scope, that finds ignored at 0, and the reset made on entering a
\* module scope.
C17_IgnoredImpliesFunction ==
  [][/\ ignored' > 0 => function' # None
     /\ (function # None /\ function' = None)
          => \/ op' \in {"leave_function", "leave_saved"} /\ ignored = 0
             \/ op' \in {"enter_module", "restore"} /\ ignored' = 0
     /\ (FunctionLeave /\ ignored > 0) => function' = function]_vars

\* After leaves run out of order, ignored is still non-zero and a function
\* is still active.
C17_Witness ==
  /\ mode = "free"
  /\ op = "leave_class"
  /\ ~err
  /\ ignored > 0
  /\ function # None

\* A module or saved scope that was entered inside other scopes, or after
\* the pairing of calls was broken, has just been left.
InnerScopeEnded ==
  /\ mode = "inner"
  /\ stack = <<>>
  /\ op \in {"leave_module", "leave_saved"}
  /\ ~err

\* C18: when a module or saved scope entered while another scope was open
\* ends, the tracker has no module, an empty class stack, no function and
\* ignored at 0, whatever it held before; from there every query and every
\* leave of a module, function or class scope fails an assert.
C18_InnerScopeLosesEnclosing ==
  InnerScopeEnded =>
    /\ Self = ScopeInit
    /\ \A q \in 1..5 : Queries(Self)[q] = AssertionError
    /\ ~module_scope_leave(Self).ok
    /\ ~function_scope_leave(Self).ok
    /\ ~leave_class(Self).ok

\* The calls function_scope(f) enter, function_scope(g) enter, leave_class,
\* function_scope leave, run from state s.
CrossedFunctions(s, f, g) ==
  LET s2 == function_scope_enter(function_scope_enter(s, f), g)
      r3 == leave_class(s2)
      r4 == function_scope_leave(r3.s)
  IN  [ok |-> r3.ok /\ r4.ok, s |-> r4.s]

\* The calls function_scope(f) enter, enter_class(info), function_scope
\* leave, leave_class, run from state s.
CrossedFunctionClass(s, f, info) ==
  LET s2 == enter_class(function_scope_enter(s, f), info)
      r3 == function_scope_leave(s2)
      r4 == leave_class(r3.s)
  IN  [ok |-> r3.ok /\ r4.ok, s |-> r4.s]

\* C19: a leave is not matched against the kind of scope it closes.  With
\* ignored non-zero a function leave and a class leave alike subtract 1 and
\* touch nothing else, whatever scope is innermost; with ignored at 0 a
\* class leave pops a non-empty class stack even while a function is
\* active.  So whenever a function f is entered with no function active,
\* the crossed sequence enter f, enter g, leave class, leave function ends
\* without a failed assert in the state f was entered from, and with a
\* non-empty class stack enter f, enter class, leave function, leave class
\* ends without a failed assert with f still active and the outer class
\* popped.
C19_LeavesIgnoreKind ==
  [][/\ ((FunctionLeave \/ ClassLeave) /\ ignored > 0)
          => /\ ~err'
             /\ Self' = [Self EXCEPT !.ignored = ignored - 1]
     /\ (ClassLeave /\ ignored = 0 /\ classes # <<>>)
          => /\ ~err'
             /\ Self' = [Self EXCEPT !.classes = Front(classes)]
     /\ (op' = "enter_function" /\ function = None)
          => \A g \in FuncIds :
               /\ CrossedFunctions(Self, function', g).ok
               /\ CrossedFunctions(Self, function', g).s = Self
     /\ (op' = "enter_function" /\ function = None /\ classes # <<>>)
          => \A info \in ClassIds :
               /\ CrossedFunctionClass(Self, function', info).ok
               /\ CrossedFunctionClass(Self, function', info).s
                    = [Self EXCEPT !.function = function',
                                   !.classes = Front(classes)]]_vars

\* A class leave has closed a scope that is not the innermost class and did
\* not fail: a function is still active and the class stack is empty.
C19_Witness ==
  /\ mode = "free"
  /\ op = "leave_class"
  /\ ~err
  /\ Truthy(module)
  /\ function # None
  /\ ignored = 0
  /\ classes = <<>>

====
